---- MODULE Spec2Model ----
(***************************************************************************)
(* Model of the garment-bot style store (database_setup.py) and of the     *)
(* Slack view handlers of app.py that drive it.                            *)
(*                                                                         *)
(* The store is the TinyDB table "styles": documents keyed by doc_id,      *)
(* ids handed out 1, 2, 3, ... and never removed, so the table is the      *)
(* sequence `styles` and a style's id is its index.                        *)
(* An optional value (Python None or a value) is the empty sequence or a   *)
(* one-element sequence.                                                   *)
(***************************************************************************)
EXTENDS Integers, Sequences, FiniteSets, TLC

VARIABLES
    styles,     \* the TinyDB table: styles[id] is the document with doc_id = id
    clock,      \* datetime.utcnow(), as a logical time
    last,       \* the call or handler that completed last: its inputs and its result
    pending,    \* pushed "qty_update_submit" views: their private_metadata
    bulkPending,\* pushed "bulk_qty_submit" views: private_metadata and offered blocks
    threads,    \* concurrently running calls: position, arguments, the doc each has read
    nops        \* number of calls and handler runs started so far

vars == <<styles, clock, last, pending, bulkPending, threads, nops>>

----------------------------------------------------------------------------
(* Bounds *)

MaxStyles == 2
MaxOps == 3

----------------------------------------------------------------------------
(* Optional values *)

None == <<>>
Some(x) == <<x>>
IsNone(v) == v = <<>>
Val(v) == v[1]

----------------------------------------------------------------------------
(* Constants of database_setup.py *)

NumStages == 14
DispatchStage == 13
Stages == 0..(NumStages - 1)

----------------------------------------------------------------------------
(* Input sets *)

Merchants == {"Megha", "Acme"}
StageArgs == {-1, 5, 13, 14}
IdArgs == 1..(MaxStyles + 1)
QtyFields == {"cut_qty", "stitch_qty", "finish_qty", "pack_qty"}
QtyArgs ==
    [QtyFields -> {None, Some(20)}]
        \cup {[f \in QtyFields |-> IF f = "stitch_qty" THEN Some(5) ELSE None]}

----------------------------------------------------------------------------
(* The store *)

Exists(style_id) == style_id \in 1..Len(styles)

\* _styles.get(doc_id=style_id): the document, or None
Get(style_id) == IF Exists(style_id) THEN Some(styles[style_id]) ELSE None

\* a new document that starts archived
NewDoc_Inactive(merchant, brand, style_no, garment, colour, total_qty, dispatch_date, now) ==
    [ merchant |-> merchant, brand |-> brand, style_no |-> style_no, garment |-> garment,
      colour |-> colour, stage |-> 0, active |-> FALSE, created_at |-> now,
      bulk_eta |-> None, acc_barcode |-> None, acc_trims |-> None, acc_washcare |-> None,
      acc_other |-> None, cut_qty |-> None, stitch_qty |-> None, finish_qty |-> None,
      pack_qty |-> None, total_qty |-> total_qty, dispatch_date |-> dispatch_date ]

\* the document add_style inserts
NewDoc(merchant, brand, style_no, garment, colour, total_qty, dispatch_date, now) ==
    [ merchant      |-> merchant,
      brand         |-> brand,
      style_no      |-> style_no,
      garment       |-> garment,
      colour        |-> colour,
      stage         |-> 0,
      active        |-> TRUE,
      created_at    |-> now,
      bulk_eta      |-> None,
      acc_barcode   |-> None,
      acc_trims     |-> None,
      acc_washcare  |-> None,
      acc_other     |-> None,
      cut_qty       |-> None,
      stitch_qty    |-> None,
      finish_qty    |-> None,
      pack_qty      |-> None,
      total_qty     |-> total_qty,
      dispatch_date |-> dispatch_date ]

\* a table update that writes the document back as a new one, stamped with the time of
\* the write
TableUpdate_Restamp(table, style_id, fields) ==
    [table EXCEPT ![style_id] =
        [k \in DOMAIN table[style_id] |->
            IF k = "created_at" THEN clock + 1
            ELSE IF k \in DOMAIN fields THEN fields[k] ELSE table[style_id][k]]]


\* _styles.update(fields, doc_ids=[style_id]): the fields given overwrite those of the document
TableUpdate(table, style_id, fields) ==
    [table EXCEPT ![style_id] =
        [k \in DOMAIN table[style_id] |->
            IF k \in DOMAIN fields THEN fields[k] ELSE table[style_id][k]]]

\* a stage update that only ever moves a style forward
StageDoc_ForwardOnly(doc, stage) ==
    [doc EXCEPT !.stage = IF stage > @ THEN stage ELSE @,
                !.active = IF stage = DispatchStage THEN FALSE ELSE @]

\* a stage update that sets the archive flag from the stage alone
StageDoc_ActiveFromStage(doc, stage) ==
    [doc EXCEPT !.stage = stage,
                !.active = stage # DispatchStage]


\* a stage update that forgets to deactivate on Dispatch
StageDoc_KeepActive(doc, stage) ==
    [doc EXCEPT !.stage = stage]

\* update_style_stage, lines 121-123: the document as changed before it is written back
StageDoc(doc, stage) ==
    [doc EXCEPT !.stage = stage,
                !.active = IF stage = DispatchStage THEN FALSE ELSE @]

\* an update that adds a provided quantity to the recorded one
QtyDoc_Accumulate(doc, q) ==
    [f \in {g \in QtyFields : q[g] # None} |->
        IF doc[f] = None THEN q[f] ELSE Some(Val(doc[f]) + Val(q[f]))]


\* a quantity update that writes every quantity argument, None included
QtyDoc_WriteAll(doc, q) ==
    [k \in DOMAIN doc |-> IF k \in QtyFields THEN q[k] ELSE doc[k]]

\* update_style_quantities, lines 132-139
QtyDoc(doc, q) ==
    [k \in DOMAIN doc |->
        IF k \in QtyFields /\ ~IsNone(q[k]) THEN q[k] ELSE doc[k]]

----------------------------------------------------------------------------
(* Queries *)

RECURSIVE InsertDesc(_, _)
\* position of id in an id list kept newest first; equal times keep table order
InsertDesc(ids, id) ==
    IF ids = <<>> THEN <<id>>
    ELSE IF styles[Head(ids)].created_at >= styles[id].created_at
         THEN <<Head(ids)>> \o InsertDesc(Tail(ids), id)
         ELSE <<id>> \o ids

RECURSIVE SortDesc(_)
\* docs.sort(key=created_at, reverse=True): a stable sort, newest first
SortDesc(ids) ==
    IF ids = <<>> THEN <<>>
    ELSE InsertDesc(SortDesc(SubSeq(ids, 1, Len(ids) - 1)), ids[Len(ids)])

RECURSIVE Filter_IgnoreActive(_, _, _)
\* a search that ignores active_only
Filter_IgnoreActive(n, merchant, active_only) ==
    IF n = 0 THEN <<>>
    ELSE LET rest == Filter_IgnoreActive(n - 1, merchant, active_only)
         IN  IF styles[n].merchant = merchant THEN Append(rest, n) ELSE rest

RECURSIVE Filter(_, _, _)
\* _styles.search(Q.merchant == merchant), then the active_only filter: ids in table order
Filter(n, merchant, active_only) ==
    IF n = 0 THEN <<>>
    ELSE LET rest == Filter(n - 1, merchant, active_only)
         IN  IF styles[n].merchant = merchant /\ (active_only => styles[n].active)
             THEN Append(rest, n) ELSE rest

get_styles_by_merchant(merchant, active_only) ==
    SortDesc(Filter(Len(styles), merchant, active_only))

\* _styles.search((Q.merchant == merchant) & (Q.active == False)), newest first
get_archived_styles_by_merchant(merchant) ==
    LET archived(i) == styles[i].merchant = merchant /\ styles[i].active = FALSE
    IN  SortDesc(SelectSeq([i \in 1..Len(styles) |-> i], archived))


get_all_styles == SortDesc([i \in 1..Len(styles) |-> i])

\* a read served from what the store held before the last write
get_style_by_id_Stale(style_id) ==
    IF last.op \in {"update_style_stage", "update_style_quantities", "delete_style",
                    "restore_style"} /\ last.style_id = style_id
    THEN last.pre
    ELSE IF last.op = "add_style" /\ last.ret = style_id THEN None
    ELSE Get(style_id)


get_style_by_id(style_id) == Get(style_id)

Range(s) == {s[i] : i \in DOMAIN s}

----------------------------------------------------------------------------
(* The calls of database_setup.py, each run to completion *)

\* an insert that gives a new style the id of an archived one
add_style_ReuseId(merchant, brand, style_no, garment, colour, total_qty, dispatch_date) ==
    LET free == {i \in 1..Len(styles) : ~styles[i].active}
        id == IF free = {} THEN Len(styles) + 1 ELSE CHOOSE i \in free : TRUE
    IN  /\ Len(styles) < MaxStyles
        /\ \E now \in {clock, clock + 1} :
            /\ clock' = now
            /\ styles' = [i \in 1..(IF free = {} THEN Len(styles) + 1 ELSE Len(styles)) |->
                   IF i = id
                   THEN NewDoc(merchant, brand, style_no, garment, colour, total_qty,
                               dispatch_date, now)
                   ELSE styles[i]]
        /\ last' = [op |-> "add_style", merchant |-> merchant, total_qty |-> total_qty,
                    ret |-> id]


add_style(merchant, brand, style_no, garment, colour, total_qty, dispatch_date) ==
    /\ Len(styles) < MaxStyles
    /\ \E now \in {clock, clock + 1} :
        /\ clock' = now
        /\ styles' = Append(styles,
               NewDoc(merchant, brand, style_no, garment, colour, total_qty, dispatch_date, now))
    /\ last' = [op |-> "add_style", merchant |-> merchant, total_qty |-> total_qty,
                ret |-> Len(styles) + 1]

\* a stage update that also resets the quantities of the style
update_style_stage_ResetQty(style_id, stage) ==
    /\ styles' = IF Exists(style_id)
                 THEN TableUpdate(styles, style_id,
                          [StageDoc(styles[style_id], stage) EXCEPT
                              !.cut_qty = None, !.stitch_qty = None,
                              !.finish_qty = None, !.pack_qty = None])
                 ELSE styles
    /\ clock' = clock
    /\ last' = [op |-> "update_style_stage", style_id |-> style_id, stage |-> stage,
                pre |-> Get(style_id)]


update_style_stage(style_id, stage) ==
    /\ styles' = IF Exists(style_id)
                 THEN TableUpdate(styles, style_id, StageDoc(styles[style_id], stage))
                 ELSE styles
    /\ clock' = clock
    /\ last' = [op |-> "update_style_stage", style_id |-> style_id, stage |-> stage,
                pre |-> Get(style_id)]

\* a quantity update without the "if doc" guard: with no document to name, the table
\* update reaches every document
update_style_quantities_AllDocs(style_id, q) ==
    /\ styles' = IF Exists(style_id)
                 THEN TableUpdate(styles, style_id, QtyDoc(styles[style_id], q))
                 ELSE [i \in DOMAIN styles |-> QtyDoc(styles[i], q)]
    /\ clock' = clock
    /\ last' = [op |-> "update_style_quantities", style_id |-> style_id, q |-> q,
                pre |-> Get(style_id)]


update_style_quantities(style_id, q) ==
    /\ styles' = IF Exists(style_id)
                 THEN TableUpdate(styles, style_id, QtyDoc(styles[style_id], q))
                 ELSE styles
    /\ clock' = clock
    /\ last' = [op |-> "update_style_quantities", style_id |-> style_id, q |-> q,
                pre |-> Get(style_id)]

\* an archive call that answers true for every style that exists
delete_style_TrueIfExists(style_id) ==
    LET ok == Exists(style_id) /\ styles[style_id].active
    IN  /\ styles' = IF ok THEN TableUpdate(styles, style_id, [active |-> FALSE]) ELSE styles
        /\ clock' = clock
        /\ last' = [op |-> "delete_style", style_id |-> style_id, ret |-> Exists(style_id),
                    pre |-> Get(style_id)]


delete_style(style_id) ==
    LET ok == Exists(style_id) /\ styles[style_id].active
    IN  /\ styles' = IF ok THEN TableUpdate(styles, style_id, [active |-> FALSE]) ELSE styles
        /\ clock' = clock
        /\ last' = [op |-> "delete_style", style_id |-> style_id, ret |-> ok,
                    pre |-> Get(style_id)]

\* a restore that also puts the style back at the first stage
restore_style_ToStart(style_id) ==
    LET ok == Exists(style_id) /\ ~styles[style_id].active
    IN  /\ styles' = IF ok THEN TableUpdate(styles, style_id, [active |-> TRUE, stage |-> 0])
                           ELSE styles
        /\ clock' = clock
        /\ last' = [op |-> "restore_style", style_id |-> style_id, ret |-> ok,
                    pre |-> Get(style_id)]


\* a restore that refuses styles that have reached Dispatch
restore_style_NotDispatched(style_id) ==
    LET ok == /\ Exists(style_id)
              /\ ~styles[style_id].active
              /\ styles[style_id].stage # DispatchStage
    IN  /\ styles' = IF ok THEN TableUpdate(styles, style_id, [active |-> TRUE]) ELSE styles
        /\ clock' = clock
        /\ last' = [op |-> "restore_style", style_id |-> style_id, ret |-> ok,
                    pre |-> Get(style_id)]


restore_style(style_id) ==
    LET ok == Exists(style_id) /\ ~styles[style_id].active
    IN  /\ styles' = IF ok THEN TableUpdate(styles, style_id, [active |-> TRUE]) ELSE styles
        /\ clock' = clock
        /\ last' = [op |-> "restore_style", style_id |-> style_id, ret |-> ok,
                    pre |-> Get(style_id)]

----------------------------------------------------------------------------
(* Spec: the store used by one caller at a time *)

Init ==
    /\ styles = <<>>
    /\ clock = 0
    /\ last = [op |-> "init"]
    /\ pending = {}
    /\ bulkPending = {}
    /\ threads = <<>>
    /\ nops = 0

\* one more call, while the bound allows
Step == nops < MaxOps /\ nops' = nops + 1

AddStyle ==
    /\ Step
    /\ \E m \in Merchants, t \in {None, Some(100)} :
          add_style(m, "X", "1", "Kurta", "Red", t, None)
    /\ UNCHANGED <<pending, bulkPending, threads>>

UpdateStage ==
    /\ Step
    /\ \E i \in IdArgs, s \in StageArgs : update_style_stage(i, s)
    /\ UNCHANGED <<pending, bulkPending, threads>>

UpdateQuantities ==
    /\ Step
    /\ \E i \in IdArgs, q \in QtyArgs : update_style_quantities(i, q)
    /\ UNCHANGED <<pending, bulkPending, threads>>

DeleteStyle ==
    /\ Step
    /\ \E i \in IdArgs : delete_style(i)
    /\ UNCHANGED <<pending, bulkPending, threads>>

RestoreStyle ==
    /\ Step
    /\ \E i \in IdArgs : restore_style(i)
    /\ UNCHANGED <<pending, bulkPending, threads>>

Next ==
    \/ AddStyle
    \/ UpdateStage
    \/ UpdateQuantities
    \/ DeleteStyle
    \/ RestoreStyle

Spec == Init /\ [][Next]_vars

----------------------------------------------------------------------------
(* Text inputs of the views: a text is a sequence of one-character strings *)

Digits == <<"0", "1", "2", "3", "4", "5", "6", "7", "8", "9">>
IsDigit(c) == \E d \in DOMAIN Digits : Digits[d] = c
DigitVal(c) == (CHOOSE d \in DOMAIN Digits : Digits[d] = c) - 1
IsSpace(c) == c \in {" ", "\t", "\n"}

RECURSIVE LStrip(_)
LStrip(t) == IF t # <<>> /\ IsSpace(Head(t)) THEN LStrip(Tail(t)) ELSE t

RECURSIVE RStrip(_)
RStrip(t) ==
    IF t # <<>> /\ IsSpace(t[Len(t)]) THEN RStrip(SubSeq(t, 1, Len(t) - 1)) ELSE t

\* str.strip()
Strip(t) == RStrip(LStrip(t))

RECURSIVE DigitsValue(_)
\* the number written by a non-empty sequence of digits
DigitsValue(t) ==
    IF Len(t) = 1 THEN DigitVal(t[1])
    ELSE 10 * DigitsValue(SubSeq(t, 1, Len(t) - 1)) + DigitVal(t[Len(t)])

AllDigits(t) == t # <<>> /\ \A i \in DOMAIN t : IsDigit(t[i])

\* int(text): surrounding whitespace is ignored, then an optional sign and digits;
\* None stands for the ValueError int() raises on anything else
ParseInt(t) ==
    LET u == Strip(t)
        signed == u # <<>> /\ Head(u) \in {"+", "-"}
        body == IF signed THEN Tail(u) ELSE u
    IN  IF ~AllDigits(body) THEN None
        ELSE IF signed /\ Head(u) = "-" THEN Some(0 - DigitsValue(body))
        ELSE Some(DigitsValue(body))

\* a conversion that reads a blank input as zero
to_int_BlankIsZero(v) ==
    IF v = None THEN None
    ELSE IF Strip(Val(v)) = <<>> THEN Some(0)
    ELSE ParseInt(Val(v))


\* _to_int(v) of the view handlers: None for a missing, blank or unparseable value
to_int(v) ==
    IF v # None /\ Strip(Val(v)) # <<>> THEN ParseInt(Val(v)) ELSE None

\* the four quantity arguments a handler derives from the submitted input values
ParseQty(form) == [f \in QtyFields |-> to_int(form[f])]

NoText == [f \in QtyFields |-> None]

\* quantity forms submitted in the single-style path
QtyForms ==
    { NoText,
      [NoText EXCEPT !.cut_qty = Some(<<"2", "0">>)],
      [NoText EXCEPT !.cut_qty = Some(<<"5">>), !.stitch_qty = Some(<<" ", "7">>)],
      [NoText EXCEPT !.stitch_qty = Some(<<" ">>), !.finish_qty = Some(<<"a">>),
                     !.pack_qty = Some(<<>>)] }

----------------------------------------------------------------------------
(* The single-style update path of app.py, each handler run to completion *)

FlowStages == 8..12

\* a flow test that misses Cutting sheet
IsFlow_From9(stage) == stage \in 9..12

\* new_stage in (8, 9, 10, 11, 12)
IsFlow(stage) == stage \in FlowStages

\* the stage values submitted in the single-style path, among those stage_opts offers
StageChoices == {5, 8, 9, 13}

\* the store after update_style_stage(style_id, stage) on store t
StageUpdated(t, style_id, stage) ==
    IF style_id \in 1..Len(t) THEN TableUpdate(t, style_id, StageDoc(t[style_id], stage)) ELSE t

\* the store after update_style_quantities(style_id, ...) on store t
QtyUpdated(t, style_id, q) ==
    IF style_id \in 1..Len(t) THEN TableUpdate(t, style_id, QtyDoc(t[style_id], q)) ELSE t

\* save_stage_update: the "stage_update_submit" view
save_stage_update(style_id, new_stage) ==
    /\ clock' = clock
    /\ IF ~Exists(style_id)
       THEN /\ UNCHANGED <<styles, pending>>
            /\ last' = [op |-> "save_stage_update", style_id |-> style_id,
                        new_stage |-> new_stage, ret |-> "vanished"]
       ELSE IF IsFlow(new_stage)
       THEN /\ pending' = pending \cup {[style_id |-> style_id, new_stage |-> new_stage]}
            /\ UNCHANGED styles
            /\ last' = [op |-> "save_stage_update", style_id |-> style_id,
                        new_stage |-> new_stage, ret |-> "push"]
       ELSE /\ styles' = StageUpdated(styles, style_id, new_stage)
            /\ UNCHANGED pending
            /\ last' = [op |-> "save_stage_update", style_id |-> style_id,
                        new_stage |-> new_stage, ret |-> "updated"]

\* save_qty_update: the "qty_update_submit" view; meta is its private_metadata, None when
\* it does not parse
save_qty_update(meta, form) ==
    /\ clock' = clock
    /\ UNCHANGED pending
    /\ IF meta = None
       THEN /\ UNCHANGED styles
            /\ last' = [op |-> "save_qty_update", ret |-> "invalid"]
       ELSE LET style_id == Val(meta).style_id
                new_stage == Val(meta).new_stage
                q == ParseQty(form)
            IN  IF ~Exists(style_id)
                THEN /\ UNCHANGED styles
                     /\ last' = [op |-> "save_qty_update", ret |-> "vanished"]
                ELSE /\ styles' = QtyUpdated(StageUpdated(styles, style_id, new_stage),
                                             style_id, q)
                     /\ last' = [op |-> "save_qty_update", ret |-> "updated",
                                 style_id |-> style_id, new_stage |-> new_stage,
                                 form |-> form, pre |-> Get(style_id)]

\* handle_add_style_submission: the "add_style_submit" view
handle_add_style_submission(merchant, brand, style_no, garment, colour, total_text, date_text) ==
    add_style(merchant, brand, style_no, garment, colour, to_int(total_text),
              IF date_text # None /\ Strip(Val(date_text)) = <<>> THEN None ELSE date_text)

----------------------------------------------------------------------------
(* SpecApp: the single-style path, one submission at a time *)

SubmitAddStyle ==
    /\ Step
    /\ \E m \in Merchants, t \in {None, Some(<<"1", "0", "0">>)} :
          handle_add_style_submission(m, "X", "1", "Kurta", "Red", t, None)
    /\ UNCHANGED <<pending, bulkPending, threads>>

SubmitStage ==
    /\ Step
    /\ \E i \in IdArgs, s \in StageChoices : save_stage_update(i, s)
    /\ UNCHANGED <<bulkPending, threads>>

\* a pushed quantity view is submitted; a view left open is never removed, and Slack may
\* deliver the same submission again
SubmitQty ==
    /\ Step
    /\ \E meta \in {Some(m) : m \in pending} \cup {None}, form \in QtyForms :
          save_qty_update(meta, form)
    /\ UNCHANGED <<bulkPending, threads>>

NextApp ==
    \/ SubmitAddStyle
    \/ SubmitStage
    \/ SubmitQty

SpecApp == Init /\ [][NextApp]_vars

----------------------------------------------------------------------------
(* SpecConc: handlers running in parallel.  Bolt runs each listener on a pool thread; *)
(* every TinyDB call (_styles.get, _styles.update) is one step, and a call of          *)
(* database_setup.py is a get followed by an update of the document it read.           *)

NumThreads == 2
Threads == 1..NumThreads

NoQty == [f \in QtyFields |-> None]

ConcStageArgs == {5, 13}
ConcQtyArgs == { [NoQty EXCEPT !.cut_qty = Some(20)],
                 [NoQty EXCEPT !.stitch_qty = Some(5), !.pack_qty = Some(20)] }

IdleThread ==
    [state |-> "idle", handler |-> "", style_id |-> 0, stage |-> None, q |-> NoQty,
     calls |-> <<>>, doc |-> None]

\* a store with one fresh style for which save_stage_update has pushed a quantity view
InitConc ==
    /\ styles = <<NewDoc("Megha", "X", "1", "Kurta", "Red", None, None, 1)>>
    /\ clock = 1
    /\ last = [op |-> "save_stage_update", style_id |-> 1, new_stage |-> 9, ret |-> "push"]
    /\ pending = {[style_id |-> 1, new_stage |-> 9]}
    /\ bulkPending = {}
    /\ threads = [t \in Threads |-> IdleThread]
    /\ nops = 2

Begin(t, handler, style_id, stage, q, calls) ==
    /\ threads[t].state = "idle"
    /\ threads' = [threads EXCEPT ![t] =
           [state |-> "run", handler |-> handler, style_id |-> style_id, stage |-> stage,
            q |-> q, calls |-> calls, doc |-> None]]

\* a thread enters update_style_stage
StartStage ==
    /\ \E t \in Threads, i \in IdArgs, s \in ConcStageArgs :
          Begin(t, "update_style_stage", i, Some(s), NoQty, <<"update_style_stage">>)
    /\ UNCHANGED <<styles, clock, last, pending, bulkPending, nops>>

\* a thread enters update_style_quantities
StartQty ==
    /\ \E t \in Threads, i \in IdArgs, q \in ConcQtyArgs :
          Begin(t, "update_style_quantities", i, None, q, <<"update_style_quantities">>)
    /\ UNCHANGED <<styles, clock, last, pending, bulkPending, nops>>

\* a thread enters save_qty_update with the metadata of a pushed view
StartRedeem ==
    /\ \E t \in Threads, m \in pending, form \in QtyForms :
          Begin(t, "save_qty_update", m.style_id, Some(m.new_stage), ParseQty(form),
                <<"get_style_by_id", "update_style_stage", "update_style_quantities">>)
    /\ UNCHANGED <<styles, clock, last, pending, bulkPending, nops>>

\* what is left of a thread after its current call returned
Returned(th) ==
    [th EXCEPT !.calls = Tail(@), !.doc = None,
               !.state = IF Len(th.calls) = 1 THEN "done" ELSE "run"]

\* _styles.get(doc_id=style_id) of the current call, and the return on a missing document
ConcRead ==
    \E t \in Threads :
        LET th == threads[t] IN
        /\ th.state = "run"
        /\ th.doc = None
        /\ threads' = [threads EXCEPT ![t] =
               IF ~Exists(th.style_id)
               THEN IF Head(th.calls) = "get_style_by_id"
                    THEN [th EXCEPT !.calls = <<>>, !.state = "done"]
                    ELSE Returned(th)
               ELSE IF Head(th.calls) = "get_style_by_id"
                    THEN Returned(th)
                    ELSE [th EXCEPT !.doc = Get(th.style_id)]]
        /\ UNCHANGED <<styles, clock, last, pending, bulkPending, nops>>

\* the document the current call writes back
WrittenDoc(th) ==
    IF Head(th.calls) = "update_style_stage"
    THEN StageDoc(Val(th.doc), Val(th.stage))
    ELSE QtyDoc(Val(th.doc), th.q)

\* _styles.update(doc, doc_ids=[style_id]) of the current call
ConcWrite ==
    \E t \in Threads :
        LET th == threads[t] IN
        /\ th.state = "run"
        /\ th.doc # None
        /\ styles' = TableUpdate(styles, th.style_id, WrittenDoc(th))
        /\ threads' = [threads EXCEPT ![t] = Returned(th)]
        /\ UNCHANGED <<clock, last, pending, bulkPending, nops>>

\* the storage layer raises in the current TinyDB call (file unreadable or unwritable):
\* the exception propagates and ends the handler
ConcFail ==
    \E t \in Threads :
        /\ threads[t].state = "run"
        /\ threads' = [threads EXCEPT ![t] =
               [@ EXCEPT !.state = "failed", !.calls = <<>>, !.doc = None]]
        /\ UNCHANGED <<styles, clock, last, pending, bulkPending, nops>>

NextConc ==
    \/ StartStage
    \/ StartQty
    \/ StartRedeem
    \/ ConcRead
    \/ ConcWrite
    \/ ConcFail

SpecConc == InitConc /\ [][NextConc]_vars

----------------------------------------------------------------------------
(* The bulk update path of app.py ("/morning-update"), each handler run to completion *)

QtyPromptCap == 20

\* the selections of a "bulk_stage_submit" view in block order (oldest style first, which
\* is ascending id): requested maps a style id to the stage selected in block style_<id>
RECURSIVE Selections(_, _)
Selections(requested, n) ==
    IF n = 0 THEN <<>>
    ELSE IF n \in DOMAIN requested
         THEN Append(Selections(requested, n - 1), [style_id |-> n, new_stage |-> requested[n]])
         ELSE Selections(requested, n - 1)

RECURSIVE DesiredChanges_KeepNoops(_)
\* a diff that keeps the selections equal to the current stage
DesiredChanges_KeepNoops(sel) ==
    IF sel = <<>> THEN <<>>
    ELSE IF Exists(Head(sel).style_id)
         THEN <<Head(sel)>> \o DesiredChanges_KeepNoops(Tail(sel))
         ELSE DesiredChanges_KeepNoops(Tail(sel))

RECURSIVE DesiredChanges(_)
\* save_bulk_update, lines 294-304: the selections whose style exists and whose stage differs
DesiredChanges(sel) ==
    IF sel = <<>> THEN <<>>
    ELSE IF Exists(Head(sel).style_id) /\ styles[Head(sel).style_id].stage # Head(sel).new_stage
         THEN <<Head(sel)>> \o DesiredChanges(Tail(sel))
         ELSE DesiredChanges(Tail(sel))

RECURSIVE FlowChanges(_)
\* save_bulk_update, lines 305-306: the changes that land on a flow stage
FlowChanges(changes) ==
    IF changes = <<>> THEN <<>>
    ELSE IF IsFlow(Head(changes).new_stage)
         THEN <<Head(changes)>> \o FlowChanges(Tail(changes))
         ELSE FlowChanges(Tail(changes))

\* flow_changes[:20]: the styles the pushed view offers quantity inputs for
Offered(flow) ==
    {flow[i].style_id : i \in 1..(IF Len(flow) < QtyPromptCap THEN Len(flow) ELSE QtyPromptCap)}

RECURSIVE ApplyStages(_, _)
\* save_bulk_update, lines 343-349: the loop over desired_changes
ApplyStages(t, changes) ==
    IF changes = <<>> THEN t
    ELSE ApplyStages(StageUpdated(t, Head(changes).style_id, Head(changes).new_stage),
                     Tail(changes))

\* the largest style id a view has a block for
MaxBlock(requested) ==
    IF DOMAIN requested = {} THEN 0
    ELSE CHOOSE m \in DOMAIN requested : \A i \in DOMAIN requested : i <= m

\* a handler that writes the non-flow changes at once and defers only the rest
save_bulk_update_CommitNonFlow(requested) ==
    LET sel == Selections(requested, MaxBlock(requested))
        desired_changes == DesiredChanges(sel)
        flow_changes == FlowChanges(desired_changes)
        other(ch) == ~IsFlow(ch.new_stage)
    IN  /\ clock' = clock
        /\ UNCHANGED pending
        /\ styles' = ApplyStages(styles, SelectSeq(desired_changes, other))
        /\ IF flow_changes # <<>>
           THEN bulkPending' = bulkPending \cup
                    {[changes |-> desired_changes, offered |-> Offered(flow_changes)]}
           ELSE UNCHANGED bulkPending
        /\ last' = [op |-> "save_bulk_update", requested |-> requested,
                    desired_changes |-> desired_changes, flow_changes |-> flow_changes,
                    ret |-> IF flow_changes # <<>> THEN "push" ELSE "updated",
                    pre |-> styles]


\* save_bulk_update: the "bulk_stage_submit" view
save_bulk_update(requested) ==
    LET sel == Selections(requested, MaxBlock(requested))
        desired_changes == DesiredChanges(sel)
        flow_changes == FlowChanges(desired_changes)
    IN  /\ clock' = clock
        /\ UNCHANGED pending
        /\ IF flow_changes # <<>>
           THEN /\ bulkPending' = bulkPending \cup
                       {[changes |-> desired_changes, offered |-> Offered(flow_changes)]}
                /\ UNCHANGED styles
           ELSE /\ styles' = ApplyStages(styles, desired_changes)
                /\ UNCHANGED bulkPending
        /\ last' = [op |-> "save_bulk_update", requested |-> requested,
                    desired_changes |-> desired_changes, flow_changes |-> flow_changes,
                    ret |-> IF flow_changes # <<>> THEN "push" ELSE "updated",
                    pre |-> styles]

\* the four quantity arguments for one style of a "bulk_qty_submit" view: the values of the
\* blocks cut_<id>, stitch_<id>, finish_<id>, pack_<id>, None for a block that is not there
BulkQty(vals, style_id) ==
    IF style_id \in DOMAIN vals THEN ParseQty(vals[style_id]) ELSE NoQty

RECURSIVE ApplyBulk_StopAtMissing(_, _, _)
\* a loop that ends at the first listed style that does not exist
ApplyBulk_StopAtMissing(t, changes, vals) ==
    IF changes = <<>> THEN t
    ELSE LET style_id == Head(changes).style_id
             q == BulkQty(vals, style_id)
         IN  IF style_id \notin 1..Len(t) THEN t
             ELSE ApplyBulk_StopAtMissing(
                      IF \E f \in QtyFields : q[f] # None
                      THEN QtyUpdated(StageUpdated(t, style_id, Head(changes).new_stage),
                                      style_id, q)
                      ELSE StageUpdated(t, style_id, Head(changes).new_stage),
                      Tail(changes), vals)

RECURSIVE ApplyBulk(_, _, _)
\* handle_bulk_qty_submit, lines 393-410: the loop over the changes of the metadata
ApplyBulk(t, changes, vals) ==
    IF changes = <<>> THEN t
    ELSE LET style_id == Head(changes).style_id
             q == BulkQty(vals, style_id)
         IN  IF style_id \notin 1..Len(t) THEN ApplyBulk(t, Tail(changes), vals)
             ELSE ApplyBulk(
                      IF \E f \in QtyFields : q[f] # None
                      THEN QtyUpdated(StageUpdated(t, style_id, Head(changes).new_stage),
                                      style_id, q)
                      ELSE StageUpdated(t, style_id, Head(changes).new_stage),
                      Tail(changes), vals)

\* handle_bulk_qty_submit: the "bulk_qty_submit" view; changes is data.get("changes", [])
\* of its private_metadata
handle_bulk_qty_submit(changes, vals) ==
    /\ clock' = clock
    /\ UNCHANGED <<pending, bulkPending>>
    /\ styles' = ApplyBulk(styles, changes, vals)
    /\ last' = [op |-> "handle_bulk_qty_submit", changes |-> changes, vals |-> vals,
                pre |-> styles]

----------------------------------------------------------------------------
(* SpecBulk: morning updates, one submission at a time *)

BulkStyles == 3
MaxBulkOps == 2
BulkIds == 1..(BulkStyles + 1)
BulkStages == {2, 5, 9}

\* every selection of stages for a set of style blocks; block ids naming a style that is
\* not in the store included
BulkRequests ==
    UNION {[D -> BulkStages] : D \in {1..BulkStyles, {1, 2}, {BulkStyles}, {2, BulkStyles + 1}}}

BulkForms ==
    { [NoText EXCEPT !.cut_qty = Some(<<"2", "0">>)],
      [NoText EXCEPT !.stitch_qty = Some(<<"5">>), !.pack_qty = Some(<<" ">>)] }

\* the input values of a quantity view: one of the forms, filled in for some of the styles
BulkVals == UNION {{[i \in D |-> form] : form \in BulkForms} : D \in SUBSET (1..BulkStyles)}

\* metadata of views pushed before the store was replaced: it lists a style that is gone
StaleChanges ==
    { <<[style_id |-> 2, new_stage |-> 9], [style_id |-> BulkStyles + 1, new_stage |-> 9],
        [style_id |-> 3, new_stage |-> 5]>>,
      <<[style_id |-> BulkStyles + 1, new_stage |-> 5], [style_id |-> 1, new_stage |-> 9]>> }

\* three styles of two merchants, all moved to stage 2
InitBulk ==
    /\ styles = [i \in 1..BulkStyles |->
                    [NewDoc(IF i = 3 THEN "Acme" ELSE "Megha", "X", "1", "Kurta", "Red",
                            None, None, i) EXCEPT !.stage = 2]]
    /\ clock = BulkStyles
    /\ last = [op |-> "init"]
    /\ pending = {}
    /\ bulkPending = {}
    /\ threads = <<>>
    /\ nops = 0

\* one more submission, while the bound allows
BulkStep == nops < MaxBulkOps /\ nops' = nops + 1

SubmitBulk ==
    /\ BulkStep
    /\ \E requested \in BulkRequests : save_bulk_update(requested)
    /\ UNCHANGED threads

SubmitBulkQty ==
    /\ BulkStep
    /\ \E changes \in {tok.changes : tok \in bulkPending} \cup StaleChanges, vals \in BulkVals :
          handle_bulk_qty_submit(changes, vals)
    /\ UNCHANGED threads

NextBulk ==
    \/ SubmitBulk
    \/ SubmitBulkQty

SpecBulk == InitBulk /\ [][NextBulk]_vars

----------------------------------------------------------------------------
(* SpecEdit: the store calls of Spec together with the edit view of app.py.            *)
(* update_style_info is imported by app.py (line 22) from database_setup.py, which     *)
(* does not define it: it is modelled as the field-level overwrite of only the         *)
(* provided values that the edit view relies on.                                       *)

InfoFields == {"brand", "style_no", "garment", "colour", "total_qty", "dispatch_date"}

NoInfo == [f \in InfoFields |-> None]

\* the document after update_style_info: a provided value overwrites its field
InfoDoc(doc, info) ==
    [k \in DOMAIN doc |->
        IF k \in InfoFields /\ info[k] # None
        THEN IF k \in {"total_qty", "dispatch_date"} THEN info[k] ELSE Val(info[k])
        ELSE doc[k]]

update_style_info(style_id, info) ==
    /\ styles' = IF Exists(style_id)
                 THEN TableUpdate(styles, style_id, InfoDoc(styles[style_id], info))
                 ELSE styles
    /\ clock' = clock
    /\ last' = [op |-> "update_style_info", style_id |-> style_id, info |-> info,
                pre |-> Get(style_id)]

\* handle_edit_style_submit: the "edit_style_submit" view; meta is the style id of its
\* private_metadata, None when that cannot be read
handle_edit_style_submit(meta, form) ==
    IF meta = None
    THEN /\ UNCHANGED <<styles, clock>>
         /\ last' = [op |-> "handle_edit_style_submit", ret |-> "invalid"]
    ELSE update_style_info(Val(meta),
             [brand         |-> form.brand,
              style_no      |-> form.style_no,
              garment       |-> form.garment,
              colour        |-> form.colour,
              total_qty     |-> to_int(form.total_qty),
              dispatch_date |-> IF form.dispatch_date # None
                                   /\ Strip(Val(form.dispatch_date)) = <<>>
                                THEN None ELSE form.dispatch_date])

\* edit views as submitted: nothing filled in; some attributes, a total and a date;
\* a blank total and a blank date
EditForms ==
    { NoInfo,
      [NoInfo EXCEPT !.brand = Some("Y"), !.colour = Some("Blue"),
                     !.total_qty = Some(<<"5", "0">>), !.dispatch_date = Some(<<"1", "2">>)],
      [NoInfo EXCEPT !.garment = Some("Shirt"), !.total_qty = Some(<<" ">>),
                     !.dispatch_date = Some(<<" ">>)] }

SubmitEdit ==
    /\ Step
    /\ \E meta \in {Some(i) : i \in IdArgs} \cup {None}, form \in EditForms :
          handle_edit_style_submit(meta, form)
    /\ UNCHANGED <<pending, bulkPending, threads>>

NextEdit ==
    \/ AddStyle
    \/ UpdateStage
    \/ UpdateQuantities
    \/ DeleteStyle
    \/ RestoreStyle
    \/ SubmitEdit

SpecEdit == Init /\ [][NextEdit]_vars

----------------------------------------------------------------------------

(* SpecForms: the quantity views submitted with every kind of input value, on styles *)
(* whose quantities are already recorded                                              *)

\* input values that carry no integer: missing, empty, blank, not a number
NotProvided ==
    {None, Some(<<>>), Some(<<" ">>), Some(<<"a">>), Some(<<"1", "a">>)}

FormTexts == NotProvided \cup {Some(<<"7">>)}

\* forms in which one input takes every value of FormTexts, the others all missing or
\* all filled in
FormChoices ==
    {[f \in QtyFields |-> IF f = g THEN t ELSE o] :
        g \in QtyFields, t \in FormTexts, o \in {None, Some(<<"7">>)}}

\* style 1 has a total and all four quantities and is back at stage 5; both quantity views
\* have been pushed: the single-style one (style 1 to Stitching, style 2 to Finishing) and
\* the morning one (style 1 to Stitching, style 2 to stage 5)
InitForms ==
    /\ styles = << [NewDoc("Megha", "X", "1", "Kurta", "Red", Some(100), None, 1) EXCEPT
                       !.stage = 5, !.cut_qty = Some(20), !.stitch_qty = Some(5),
                       !.finish_qty = Some(3), !.pack_qty = Some(2)],
                   [NewDoc("Megha", "X", "2", "Kurta", "Red", None, None, 2) EXCEPT
                       !.stage = 2] >>
    /\ clock = 2
    /\ last = [op |-> "init"]
    /\ pending = {[style_id |-> 1, new_stage |-> 9], [style_id |-> 2, new_stage |-> 10]}
    /\ bulkPending =
          {[changes |-> <<[style_id |-> 1, new_stage |-> 9], [style_id |-> 2, new_stage |-> 5]>>,
            offered |-> Offered(<<[style_id |-> 1, new_stage |-> 9]>>)]}
    /\ threads = <<>>
    /\ nops = 0

FormsSubmitQty ==
    /\ BulkStep
    /\ \E meta \in pending, form \in FormChoices : save_qty_update(Some(meta), form)
    /\ UNCHANGED <<bulkPending, threads>>

FormsSubmitBulkQty ==
    /\ BulkStep
    /\ \E tok \in bulkPending, form \in FormChoices :
          handle_bulk_qty_submit(tok.changes, [i \in tok.offered |-> form])
    /\ UNCHANGED threads

NextForms ==
    \/ FormsSubmitQty
    \/ FormsSubmitBulkQty

SpecForms == InitForms /\ [][NextForms]_vars

----------------------------------------------------------------------------

(* SpecExport: the store and the /export-csv command of app.py.  A cell of the CSV is *)
(* None when it is written as the empty string, Some(n) when it shows the number n.   *)

\* a cell that shows a zero
norm_num_ShowZero(n) ==
    IF n = None THEN None
    ELSE IF Val(n) < 0 THEN None ELSE Some(Val(n))


\* norm_num, lines 457-462; int(None) raises and gives ""
norm_num(n) ==
    IF n = None THEN None
    ELSE IF Val(n) <= 0 THEN None ELSE Some(Val(n))

\* a balance that is not clamped at 0
balance_NoClamp(total, qty) ==
    IF total = None \/ qty = None THEN None
    ELSE IF Val(total) <= 0 \/ Val(qty) <= 0 THEN None
    ELSE Some(Val(total) - Val(qty))


\* balance, lines 464-473
balance(total, qty) ==
    IF total = None \/ qty = None THEN None
    ELSE LET t == Val(total)
             q == Val(qty)
             b == t - q
         IN  IF t <= 0 \/ q <= 0 THEN None
             ELSE IF b >= 0 THEN Some(b) ELSE Some(0)

\* STAGE_LABELS[r.stage]: the index of the label read, None when the read raises
\* IndexError; a negative index counts from the end of the list
StageLabel(stage) ==
    IF stage \in 0..(NumStages - 1) THEN Some(stage)
    ELSE IF stage \in (0 - NumStages)..(-1) THEN Some(stage + NumStages)
    ELSE None

\* writer.writerow of lines 482-500 for one style
ExportRow(doc) ==
    [ brand         |-> doc.brand,
      style_no      |-> doc.style_no,
      garment       |-> doc.garment,
      colour        |-> doc.colour,
      stage_label   |-> StageLabel(doc.stage),
      total_qty     |-> norm_num(doc.total_qty),
      qty           |-> [f \in QtyFields |-> norm_num(doc[f])],
      bal           |-> [f \in QtyFields |-> balance(doc.total_qty, doc[f])],
      dispatch_date |-> doc.dispatch_date,
      created_at    |-> doc.created_at,
      active        |-> doc.active ]

\* export_csv: the rows of the file sent, or the failure answered when building it raised
export_csv(merchant) ==
    LET rows == get_styles_by_merchant(merchant, TRUE)
        raised == \E k \in DOMAIN rows : StageLabel(styles[rows[k]].stage) = None
    IN  /\ UNCHANGED <<styles, clock>>
        /\ last' = [op |-> "export_csv", merchant |-> merchant,
                    ret |-> IF raised THEN "failed" ELSE "sent",
                    rows |-> IF raised THEN <<>>
                             ELSE [k \in DOMAIN rows |-> ExportRow(styles[rows[k]])]]

\* totals and quantities as the views and direct calls can store them
ExportTotals == {None, Some(100), Some(50), Some(0), Some(-5)}

ExportQtys ==
    { [NoQty EXCEPT !.stitch_qty = Some(30)],
      [NoQty EXCEPT !.stitch_qty = Some(60)],
      [NoQty EXCEPT !.stitch_qty = Some(0)],
      [NoQty EXCEPT !.stitch_qty = Some(-5)],
      [NoQty EXCEPT !.cut_qty = Some(30), !.pack_qty = Some(60)] }

ExportStageArgs == {DispatchStage, NumStages}

ExpAddStyle ==
    /\ Step
    /\ \E m \in Merchants, t \in ExportTotals : add_style(m, "X", "1", "Kurta", "Red", t, None)
    /\ UNCHANGED <<pending, bulkPending, threads>>

ExpUpdateQuantities ==
    /\ Step
    /\ \E i \in IdArgs, q \in ExportQtys : update_style_quantities(i, q)
    /\ UNCHANGED <<pending, bulkPending, threads>>

ExpUpdateStage ==
    /\ Step
    /\ \E i \in IdArgs, s \in ExportStageArgs : update_style_stage(i, s)
    /\ UNCHANGED <<pending, bulkPending, threads>>

ExportCsv ==
    /\ Step
    /\ \E m \in Merchants : export_csv(m)
    /\ UNCHANGED <<pending, bulkPending, threads>>

NextExport ==
    \/ ExpAddStyle
    \/ ExpUpdateQuantities
    \/ ExpUpdateStage
    \/ ExportCsv

SpecExport == Init /\ [][NextExport]_vars

----------------------------------------------------------------------------

(* SpecEntry: the three views a number is typed into (add style, edit style, quantity), *)
(* submitted with texts of every kind                                                   *)

\* texts a user can type into a number input: nothing, a number, a negative number, zero,
\* and a word
EntryTexts == {None, Some(<<"7">>), Some(<<"-", "5">>), Some(<<"0">>), Some(<<"a">>)}

\* quantity forms with one of the texts in the cut or the stitch input
EntryForms ==
    {[NoText EXCEPT ![f] = t] : f \in {"cut_qty", "stitch_qty"}, t \in EntryTexts}

EntryAddStyle ==
    /\ Step
    /\ \E t \in EntryTexts :
          handle_add_style_submission("Megha", "X", "1", "Kurta", "Red", t, None)
    /\ UNCHANGED <<pending, bulkPending, threads>>

EntryEdit ==
    /\ Step
    /\ \E i \in IdArgs, t \in EntryTexts :
          handle_edit_style_submit(Some(i), [NoInfo EXCEPT !.total_qty = t])
    /\ UNCHANGED <<pending, bulkPending, threads>>

EntryStage ==
    /\ Step
    /\ \E i \in IdArgs : save_stage_update(i, 9)
    /\ UNCHANGED <<bulkPending, threads>>

EntryQty ==
    /\ Step
    /\ \E meta \in pending, form \in EntryForms : save_qty_update(Some(meta), form)
    /\ UNCHANGED <<bulkPending, threads>>

NextEntry ==
    \/ EntryAddStyle
    \/ EntryEdit
    \/ EntryStage
    \/ EntryQty

SpecEntry == Init /\ [][NextEntry]_vars

----------------------------------------------------------------------------

(* SpecRemind: the store and the daily reminder job of app.py.  A run is given the      *)
(* members of the "merchant" user group and the answer of users_list as the job reads   *)
(* them                                                                                 *)

\* Slack user ids, in their sorted order
Users == {1, 2}

\* the merchant name of a user: display_name or real_name of the profile
MerchantOf(u) == IF u = 1 THEN "Megha" ELSE "Acme"

\* what id_to_member holds for a user: None when users_list does not list the user, or
\* when the call raised and id_to_member is empty
MemberEntries ==
    {None} \cup {Some([deleted |-> d, is_bot |-> b]) : d, b \in BOOLEAN}

\* a test that lets bots through
Skipped_BotsPass(m) ==
    m = None \/ Val(m).deleted

\* m.get("deleted") or m.get("is_bot") or m.get("id") is None
Skipped(m) ==
    m = None \/ Val(m).deleted \/ Val(m).is_bot

RECURSIVE SortedSeq(_)
\* sorted(merchant_group_member_ids)
SortedSeq(S) ==
    IF S = {} THEN <<>>
    ELSE LET m == CHOOSE x \in S : \A y \in S : x <= y
         IN  <<m>> \o SortedSeq(S \ {m})

RECURSIVE Posted(_, _, _)
\* the loop of lines 911-920 over the users still to visit: the users chat_postMessage is
\* called for; unreachable are the users for whom conversations_open raises
Posted(users, members, unreachable) ==
    IF users = <<>> THEN <<>>
    ELSE LET u == Head(users)
             rest == Posted(Tail(users), members, unreachable)
         IN  IF Skipped(members[u]) \/ u \in unreachable THEN rest ELSE <<u>> \o rest

\* send_daily_reminder: one run of the job
send_daily_reminder(group, members, unreachable) ==
    /\ UNCHANGED <<styles, clock>>
    /\ last' = [op |-> "send_daily_reminder", group |-> group, members |-> members,
                sent |-> IF group = {} THEN <<>>
                         ELSE Posted(SortedSeq(group), members, unreachable)]

SendReminder ==
    /\ Step
    /\ \E group \in SUBSET Users, members \in [Users -> MemberEntries],
          unreachable \in SUBSET Users :
          send_daily_reminder(group, members, unreachable)
    /\ UNCHANGED <<pending, bulkPending, threads>>

NextRemind ==
    \/ AddStyle
    \/ DeleteStyle
    \/ SendReminder

SpecRemind == Init /\ [][NextRemind]_vars

----------------------------------------------------------------------------

(* SpecStages: update_style_stage called with every stage, from every stage *)

StagesAdd ==
    /\ Step
    /\ add_style("Megha", "X", "1", "Kurta", "Red", None, None)
    /\ UNCHANGED <<pending, bulkPending, threads>>

StagesUpdate ==
    /\ Step
    /\ \E i \in IdArgs, s \in Stages : update_style_stage(i, s)
    /\ UNCHANGED <<pending, bulkPending, threads>>

NextStages ==
    \/ StagesAdd
    \/ StagesUpdate

SpecStages == Init /\ [][NextStages]_vars

----------------------------------------------------------------------------

(* SpecRace: the four calls of database_setup.py that change a style, running in        *)
(* parallel on the store of InitConc; _styles.get and _styles.update are separate steps *)

\* a thread enters delete_style
StartDelete ==
    /\ \E t \in Threads, i \in IdArgs :
          Begin(t, "delete_style", i, None, NoQty, <<"delete_style">>)
    /\ UNCHANGED <<styles, clock, last, pending, bulkPending, nops>>

\* a thread enters restore_style
StartRestore ==
    /\ \E t \in Threads, i \in IdArgs :
          Begin(t, "restore_style", i, None, NoQty, <<"restore_style">>)
    /\ UNCHANGED <<styles, clock, last, pending, bulkPending, nops>>

\* _styles.get(doc_id=style_id) and the test that follows it: "if doc" in the update
\* calls, "if doc and doc.get("active", True)" in delete_style and its negation in
\* restore_style; the call returns at once when the test fails
RaceRead ==
    \E t \in Threads :
        LET th == threads[t]
            doc == Get(th.style_id)
            go == /\ doc # None
                  /\ th.handler = "delete_style" => Val(doc).active
                  /\ th.handler = "restore_style" => ~Val(doc).active
        IN  /\ th.state = "run"
            /\ th.doc = None
            /\ threads' = [threads EXCEPT ![t] =
                   IF go THEN [th EXCEPT !.doc = doc] ELSE Returned(th)]
            /\ UNCHANGED <<styles, clock, last, pending, bulkPending, nops>>

\* the fields the call passes to _styles.update: the whole document it read, changed,
\* in the update calls; the archive flag alone in delete_style and restore_style
RaceFields(th) ==
    IF th.handler = "update_style_stage" THEN StageDoc(Val(th.doc), Val(th.stage))
    ELSE IF th.handler = "update_style_quantities" THEN QtyDoc(Val(th.doc), th.q)
    ELSE IF th.handler = "delete_style" THEN [active |-> FALSE]
    ELSE [active |-> TRUE]

\* _styles.update(..., doc_ids=[style_id]) and the return of the call
RaceWrite ==
    \E t \in Threads :
        LET th == threads[t] IN
        /\ th.state = "run"
        /\ th.doc # None
        /\ styles' = TableUpdate(styles, th.style_id, RaceFields(th))
        /\ threads' = [threads EXCEPT ![t] = Returned(th)]
        /\ last' = [op |-> th.handler, style_id |-> th.style_id, thread |-> t]
        /\ UNCHANGED <<clock, pending, bulkPending, nops>>

NextRace ==
    \/ StartStage
    \/ StartQty
    \/ StartDelete
    \/ StartRestore
    \/ RaceRead
    \/ RaceWrite

SpecRace == InitConc /\ [][NextRace]_vars

----------------------------------------------------------------------------
(* SpecTable: the four calls that change a style, running in parallel on a store of two *)
(* styles.  The store is a plain TinyDB on a JSON file, opened without a lock or a       *)
(* middleware: _styles.update loads the whole table from the file, changes the documents *)
(* named by doc_ids and writes the whole table back, so the load and the write-back of   *)
(* one update are separate steps                                                         *)

\* the two styles of InitForms, with no view pushed and every thread idle
InitTable ==
    /\ styles = << [NewDoc("Megha", "X", "1", "Kurta", "Red", Some(100), None, 1) EXCEPT
                       !.stage = 5, !.cut_qty = Some(20)],
                   [NewDoc("Acme", "X", "2", "Kurta", "Red", None, None, 2) EXCEPT
                       !.stage = 2] >>
    /\ clock = 2
    /\ last = [op |-> "init"]
    /\ pending = {}
    /\ bulkPending = {}
    /\ threads = [t \in Threads |-> IdleThread]
    /\ nops = 0

\* _styles.update, first half: the table as the file holds it is loaded
TableLoad ==
    \E t \in Threads :
        LET th == threads[t] IN
        /\ th.state = "run"
        /\ th.doc # None
        /\ "table" \notin DOMAIN th
        /\ threads' = [threads EXCEPT ![t] = [table |-> styles] @@ th]
        /\ UNCHANGED <<styles, clock, last, pending, bulkPending, nops>>

\* _styles.update, second half: the loaded table, with the fields of the call written
\* into document style_id, replaces the file's table; the call returns
TableStore ==
    \E t \in Threads :
        LET th == threads[t] IN
        /\ th.state = "run"
        /\ "table" \in DOMAIN th
        /\ styles' = TableUpdate(th.table, th.style_id, RaceFields(th))
        /\ threads' = [threads EXCEPT ![t] = Returned(th)]
        /\ last' = [op |-> th.handler, style_id |-> th.style_id, thread |-> t]
        /\ UNCHANGED <<clock, pending, bulkPending, nops>>

NextTable ==
    \/ StartStage
    \/ StartQty
    \/ StartDelete
    \/ StartRestore
    \/ RaceRead
    \/ TableLoad
    \/ TableStore

SpecTable == InitTable /\ [][NextTable]_vars


----------------------------------------------------------------------------
(* SpecDefer: morning updates that mix flow stages, other stages and dispatch *)

DeferStages == {5, 9, 13}

\* a view with one block per style, each selecting one of the stages
DeferRequests == [1..BulkStyles -> DeferStages]

\* quantity views: nothing filled in, or one form filled in for the first style
DeferVals == {<<>>} \cup {(1 :> form) : form \in BulkForms}

DeferSubmit ==
    /\ BulkStep
    /\ \E requested \in DeferRequests : save_bulk_update(requested)
    /\ UNCHANGED threads

\* a pushed quantity view is submitted: its metadata is the change set of its token
DeferSubmitQty ==
    /\ BulkStep
    /\ \E tok \in bulkPending, vals \in DeferVals : handle_bulk_qty_submit(tok.changes, vals)
    /\ UNCHANGED threads

NextDefer ==
    \/ DeferSubmit
    \/ DeferSubmitQty

SpecDefer == InitBulk /\ [][NextDefer]_vars


----------------------------------------------------------------------------
(* SpecRedeem: quantity views redeemed after the style has moved on.  The stage views *)
(* list active styles only, so a pending change is always created for an active style *)

RedeemStages == {5, 9, 13}

\* open_stage_modal offers the active styles; the stage view is submitted for one of them
RedeemSubmitStage ==
    /\ Step
    /\ \E i \in 1..Len(styles), s \in RedeemStages : styles[i].active /\ save_stage_update(i, s)
    /\ UNCHANGED <<bulkPending, threads>>

\* a pushed quantity view is submitted, with or without a quantity
RedeemSubmitQty ==
    /\ Step
    /\ \E meta \in pending, form \in {NoText, [NoText EXCEPT !.cut_qty = Some(<<"2", "0">>)]} :
          save_qty_update(Some(meta), form)
    /\ UNCHANGED <<bulkPending, threads>>

\* open_bulk_modal offers the active styles; the morning view is submitted for style 1
RedeemSubmitBulk ==
    /\ Step
    /\ styles[1].active
    /\ \E s \in RedeemStages : save_bulk_update((1 :> s))
    /\ UNCHANGED threads

\* a pushed morning quantity view is submitted with nothing filled in
RedeemSubmitBulkQty ==
    /\ Step
    /\ \E tok \in bulkPending : handle_bulk_qty_submit(tok.changes, <<>>)
    /\ UNCHANGED threads

NextRedeem ==
    \/ RedeemSubmitStage
    \/ RedeemSubmitQty
    \/ RedeemSubmitBulk
    \/ RedeemSubmitBulkQty
    \/ DeleteStyle

SpecRedeem == InitBulk /\ [][NextRedeem]_vars


----------------------------------------------------------------------------
(* SpecArchive: the store calls on styles that already have a stage and quantities *)

NextArchive ==
    \/ UpdateStage
    \/ UpdateQuantities
    \/ DeleteStyle
    \/ RestoreStyle

SpecArchive == InitForms /\ [][NextArchive]_vars


----------------------------------------------------------------------------
(* SpecCap: morning updates of a merchant with one style more than the quantity view *)
(* has room for (the morning view lists up to 40 styles)                             *)

\* QtyPromptCap + 1 styles of one merchant, all at stage 2
InitCap ==
    /\ styles = [i \in 1..(QtyPromptCap + 1) |->
                    [NewDoc("Megha", "X", "1", "Kurta", "Red", None, None, i) EXCEPT !.stage = 2]]
    /\ clock = QtyPromptCap + 1
    /\ last = [op |-> "init"]
    /\ pending = {}
    /\ bulkPending = {}
    /\ threads = <<>>
    /\ nops = 0

\* the morning view submitted with one stage selected for all styles, for all but the
\* last, or for the first and the last alone
CapSubmit ==
    /\ BulkStep
    /\ \E D \in {1..(QtyPromptCap + 1), 1..QtyPromptCap, {1, QtyPromptCap + 1}},
          s \in {5, 9, 10, 13} : save_bulk_update([i \in D |-> s])
    /\ UNCHANGED threads

\* a pushed quantity view is submitted, empty or with the same form for each offered style
CapSubmitQty ==
    /\ BulkStep
    /\ \E tok \in bulkPending :
          \E vals \in {<<>>} \cup {[i \in tok.offered |-> form] : form \in BulkForms} :
              handle_bulk_qty_submit(tok.changes, vals)
    /\ UNCHANGED threads

NextCap ==
    \/ CapSubmit
    \/ CapSubmitQty

SpecCap == InitCap /\ [][NextCap]_vars


(* Properties of the store, one caller at a time (Spec) *)

StyleIds == 1..Len(styles)

\* C1 as stated: in every reachable state every style with stage == 13 is inactive.
C1_DispatchedIsInactive ==
    \A i \in StyleIds : styles[i].stage = DispatchStage => ~styles[i].active

\* C1 as amended: a style is at stage 13 and active only after restore_style returned
\* true for it; no other call makes a style at stage 13 active, and
\* update_style_stage(id, 13) always leaves it inactive.
C1_DispatchedActiveOnlyByRestore ==
    [][\A i \in 1..Len(styles') :
          (styles'[i].stage = DispatchStage /\ styles'[i].active)
              => \/ (last'.op = "restore_style" /\ last'.style_id = i /\ last'.ret)
                 \/ (i \in StyleIds /\ styles[i].stage = DispatchStage /\ styles[i].active)]_vars

\* a style dispatched by update_style_stage(id, 13) and then restored
C1_Witness ==
    /\ last.op = "restore_style"
    /\ last.ret
    /\ styles[last.style_id].stage = DispatchStage
    /\ styles[last.style_id].active

\* C2: update_style_stage(id, 13) on an existing style, active or archived, leaves it with
\* stage 13 and inactive, and the merchant's active list does not contain it.
C2_DispatchDeactivates ==
    (last.op = "update_style_stage" /\ last.stage = DispatchStage /\ Exists(last.style_id))
        => /\ styles[last.style_id].stage = DispatchStage
           /\ ~styles[last.style_id].active
           /\ last.style_id \notin
                  Range(get_styles_by_merchant(styles[last.style_id].merchant, TRUE))

\* a dispatch of a style that was active, with another active style of the same merchant
\* still listed
C2_Witness ==
    /\ last.op = "update_style_stage"
    /\ last.stage = DispatchStage
    /\ Exists(last.style_id)
    /\ Val(last.pre).active
    /\ ~styles[last.style_id].active
    /\ get_styles_by_merchant(styles[last.style_id].merchant, TRUE) # <<>>

\* C3: right after add_style returns id, the style exists with stage 0, active, no stage
\* quantities, the caller's merchant, and is listed for that merchant and in get_all_styles.
C3_AddStyleInitialState ==
    last.op = "add_style"
        => /\ Exists(last.ret)
           /\ styles[last.ret].stage = 0
           /\ styles[last.ret].active
           /\ \A f \in QtyFields : IsNone(styles[last.ret][f])
           /\ styles[last.ret].merchant = last.merchant
           /\ last.ret \in Range(get_styles_by_merchant(last.merchant, TRUE))
           /\ last.ret \in Range(get_all_styles)

\* a second style added while the first one has moved on
C3_Witness ==
    /\ last.op = "add_style"
    /\ last.ret = 2
    /\ styles[1].stage # 0
    /\ styles[2].stage = 0

\* C4 as stated: every style's stage is in 0..13 in every reachable state.
C4_StageInRange ==
    \A i \in StyleIds : styles[i].stage \in Stages

\* C10: update_style_quantities changes exactly the quantity fields passed with a value;
\* every other field of the style is as before the call.
C10_QuantitiesFrame ==
    (last.op = "update_style_quantities" /\ Exists(last.style_id))
        => \A k \in DOMAIN styles[last.style_id] :
              styles[last.style_id][k] =
                  IF k \in QtyFields /\ last.q[k] # None
                  THEN last.q[k]
                  ELSE Val(last.pre)[k]

\* only stitch=5 passed to a style that already has a cut quantity
C10_Witness ==
    /\ last.op = "update_style_quantities"
    /\ Exists(last.style_id)
    /\ last.q = [cut_qty |-> None, stitch_qty |-> Some(5), finish_qty |-> None, pack_qty |-> None]
    /\ Val(last.pre).cut_qty = Some(20)
    /\ Val(last.pre).stitch_qty = Some(20)
    /\ styles[last.style_id].cut_qty = Some(20)
    /\ styles[last.style_id].stitch_qty = Some(5)

----------------------------------------------------------------------------
(* Properties of the single-style update path (SpecApp) *)

\* C6: a stage submission for a flow stage (8..12) writes nothing to the store; the store
\* changes only when a style is added, a quantity submission runs, or a stage submission
\* names a non-flow stage, so a pushed view that is never submitted changes nothing.
C6_FlowStageDeferred ==
    [][styles' # styles =>
          \/ last'.op = "add_style"
          \/ last'.op = "save_qty_update"
          \/ (last'.op = "save_stage_update" /\ last'.new_stage \notin 8..12)]_vars

\* a flow stage was submitted: the view is pushed and the style is as it was
C6_Witness ==
    /\ last.op = "save_stage_update"
    /\ last.ret = "push"
    /\ last.new_stage \in 8..12
    /\ [style_id |-> last.style_id, new_stage |-> last.new_stage] \in pending
    /\ styles[last.style_id].stage # last.new_stage
    /\ nops = MaxOps

----------------------------------------------------------------------------
(* Properties of handlers running in parallel (SpecConc) *)

Finished(t, handler) == threads[t].state = "done" /\ threads[t].handler = handler

\* C5 as stated: when update_style_stage and update_style_quantities ran concurrently on
\* one style and both completed, the record holds the new stage and the new quantities.
C5_NoLostUpdate ==
    \A t1, t2 \in Threads :
        ( /\ Finished(t1, "update_style_stage")
          /\ Finished(t2, "update_style_quantities")
          /\ threads[t1].style_id = threads[t2].style_id
          /\ Exists(threads[t1].style_id) )
        => /\ styles[threads[t1].style_id].stage = Val(threads[t1].stage)
           /\ \A f \in QtyFields :
                 threads[t2].q[f] # None => styles[threads[t1].style_id][f] = threads[t2].q[f]

\* C7 as stated: a redemption applies stage and quantities together; while it runs, and
\* after it ended in any way, the style never has the token's stage without the
\* quantities the submission provided.
C7_RedemptionAtomic ==
    \A t \in Threads :
        ( /\ threads[t].handler = "save_qty_update"
          /\ Exists(threads[t].style_id)
          /\ styles[threads[t].style_id].stage = Val(threads[t].stage) )
        => \A f \in QtyFields :
              threads[t].q[f] # None => styles[threads[t].style_id][f] = threads[t].q[f]

----------------------------------------------------------------------------
(* Properties of the bulk update path (SpecBulk) *)

\* C8: after a bulk quantity submission every listed style that exists has its requested
\* stage and the quantities provided for it, whatever other styles the list names; a
\* listed style that does not exist is skipped and no record is created for it.
C8_BulkCommitsIndependently ==
    last.op = "handle_bulk_qty_submit"
        => /\ Len(styles) = Len(last.pre)
           /\ \A k \in DOMAIN last.changes :
                 LET id == last.changes[k].style_id
                 IN  id \in 1..Len(styles)
                        => /\ styles[id].stage = last.changes[k].new_stage
                           /\ \A f \in QtyFields :
                                 BulkQty(last.vals, id)[f] # None
                                     => styles[id][f] = BulkQty(last.vals, id)[f]

\* a list naming a missing style between two existing ones: the styles after it are updated
C8_Witness ==
    /\ last.op = "handle_bulk_qty_submit"
    /\ Len(last.changes) = 3
    /\ last.changes[2].style_id \notin 1..Len(styles)
    /\ last.pre[3].stage = 2
    /\ styles[3].stage = 5
    /\ styles[3].cut_qty = Some(20)
    /\ styles[2].stage = 9
    /\ styles[2].cut_qty = None

\* C9: the diff of save_bulk_update holds exactly the requested entries whose style exists
\* and whose requested stage differs from the current stage; the flow subset is exactly the
\* entries of the diff whose requested stage is in 8..12.
C9_BulkDiff ==
    last.op = "save_bulk_update"
        => LET req == last.requested
               changed == {i \in DOMAIN req :
                              i \in 1..Len(last.pre) /\ last.pre[i].stage # req[i]}
           IN  /\ Range(last.desired_changes) =
                      {[style_id |-> i, new_stage |-> req[i]] : i \in changed}
               /\ Len(last.desired_changes) = Cardinality(changed)
               /\ Range(last.flow_changes) =
                      {[style_id |-> i, new_stage |-> req[i]] :
                          i \in {j \in changed : req[j] \in 8..12}}
               /\ Len(last.flow_changes) = Cardinality({j \in changed : req[j] \in 8..12})

\* styles 1, 2, 3 at stage 2 and the request {1:2, 2:5, 3:9}: changes {2, 3}, flow {3}
C9_Witness ==
    /\ last.op = "save_bulk_update"
    /\ \A i \in 1..3 : last.pre[i].stage = 2
    /\ last.requested = (1 :> 2) @@ (2 :> 5) @@ (3 :> 9)
    /\ last.desired_changes = <<[style_id |-> 2, new_stage |-> 5], [style_id |-> 3, new_stage |-> 9]>>
    /\ last.flow_changes = <<[style_id |-> 3, new_stage |-> 9]>>


\* the fields C11 speaks of
CountFields == QtyFields \cup {"total_qty"}

\* C11: update_style_stage (13 included), delete_style and restore_style leave cut_qty,
\* stitch_qty, finish_qty, pack_qty and total_qty as they were; a quantity changes only in
\* an update_style_quantities call for that style that passes that field with a value.
C11_QuantitiesPersist ==
    [][\A i \in StyleIds : \A f \in CountFields :
          styles'[i][f] # styles[i][f]
              => /\ last'.op = "update_style_quantities"
                 /\ last'.style_id = i
                 /\ f \in QtyFields
                 /\ last'.q[f] # None]_vars

\* a style with quantities set was dispatched (auto-archived), and they are still there
C11_Witness ==
    /\ last.op = "update_style_stage"
    /\ last.stage = DispatchStage
    /\ Exists(last.style_id)
    /\ \E f \in QtyFields : Val(last.pre)[f] # None /\ styles[last.style_id][f] = Val(last.pre)[f]
    /\ ~styles[last.style_id].active


\* C13: delete_style answers true, and sets active to false, exactly when the style exists
\* and is active; otherwise it answers false and the store is as before. restore_style is
\* the mirror image: true and active again exactly when the style exists and is archived.
C13_ArchiveToggle ==
    [][/\ last'.op = "delete_style"
          => LET i == last'.style_id
                 ok == i \in StyleIds /\ styles[i].active
             IN  /\ last'.ret = ok
                 /\ styles' = IF ok THEN [styles EXCEPT ![i].active = FALSE] ELSE styles
       /\ last'.op = "restore_style"
          => LET i == last'.style_id
                 ok == i \in StyleIds /\ ~styles[i].active
             IN  /\ last'.ret = ok
                 /\ styles' = IF ok THEN [styles EXCEPT ![i].active = TRUE] ELSE styles]_vars

\* delete_style was called on a style that was already archived
C13_Witness ==
    /\ last.op = "delete_style"
    /\ last.pre # None
    /\ ~Val(last.pre).active
    /\ ~last.ret
    /\ styles[last.style_id] = Val(last.pre)

\* C14: restore_style on an archived style answers true and leaves it active at the stage
\* it had, whatever that stage is, Dispatch included.
C14_RestoreAnyStage ==
    (last.op = "restore_style" /\ last.pre # None /\ ~Val(last.pre).active)
        => /\ last.ret
           /\ styles[last.style_id].active
           /\ styles[last.style_id].stage = Val(last.pre).stage

\* a style archived by reaching Dispatch was restored
C14_Witness ==
    /\ last.op = "restore_style"
    /\ last.pre # None
    /\ Val(last.pre).stage = DispatchStage
    /\ ~Val(last.pre).active
    /\ last.ret
    /\ styles[last.style_id].active


\* the calls that change a style named by its id
Mutations == {"update_style_stage", "update_style_quantities", "delete_style", "restore_style"}

\* C15: a mutation that names an id no style has changes nothing in the store;
\* delete_style and restore_style answer false, and get_style_by_id of that id is absent.
C15_MissingIdNoOp ==
    [][(last'.op \in Mutations /\ last'.style_id \notin StyleIds)
          => /\ styles' = styles
             /\ last'.op \in {"delete_style", "restore_style"} => ~last'.ret
             /\ get_style_by_id(last'.style_id) = None
             /\ last'.style_id \notin DOMAIN styles']_vars

\* a quantity update named an id that no style has, in a store that holds a style
C15_Witness ==
    /\ last.op = "update_style_quantities"
    /\ \E f \in QtyFields : last.q[f] # None
    /\ styles # <<>>
    /\ ~Exists(last.style_id)
    /\ get_style_by_id(last.style_id) = None

\* C16: ids are unique and stable and no record is ever removed: add_style answers an id
\* no earlier style has, and every id in use goes on naming the record it named
\* (same merchant, same creation time).
C16_IdsStable ==
    [][/\ \A i \in StyleIds :
             /\ i \in DOMAIN styles'
             /\ styles'[i].merchant = styles[i].merchant
             /\ styles'[i].created_at = styles[i].created_at
       /\ last'.op = "add_style"
             => /\ last'.ret \notin StyleIds
                /\ last'.ret \in DOMAIN styles'
                /\ Len(styles') = Len(styles) + 1]_vars

\* two styles were added and one archived: both ids still resolve, to different records
C16_Witness ==
    /\ Len(styles) = 2
    /\ last.op = "delete_style"
    /\ last.ret
    /\ get_style_by_id(1) # None
    /\ get_style_by_id(2) # None
    /\ ~styles[last.style_id].active


\* the input value of one quantity block of a morning quantity view
BulkText(vals, style_id, f) ==
    IF style_id \in DOMAIN vals THEN vals[style_id][f] ELSE None

\* C12: a quantity input that is blank, whitespace-only, missing or not an integer counts
\* as not provided: the stored field keeps the value it had, and the stage change of the
\* same submission is applied all the same (single-style view and morning view).
C12_BlankKeepsValue ==
    /\ (last.op = "save_qty_update" /\ last.ret = "updated")
          => /\ styles[last.style_id].stage = last.new_stage
             /\ \A f \in QtyFields :
                   last.form[f] \in NotProvided
                       => styles[last.style_id][f] = Val(last.pre)[f]
    /\ last.op = "handle_bulk_qty_submit"
          => \A k \in DOMAIN last.changes :
                LET i == last.changes[k].style_id IN
                i \in StyleIds
                    => /\ styles[i].stage = last.changes[k].new_stage
                       /\ \A f \in QtyFields :
                             BulkText(last.vals, i, f) \in NotProvided
                                 => styles[i][f] = last.pre[i][f]

\* a blank cut input left the recorded cut quantity in place while the stage moved on
C12_Witness ==
    /\ last.op = "save_qty_update"
    /\ last.ret = "updated"
    /\ last.form.cut_qty = Some(<<" ">>)
    /\ Val(last.pre).cut_qty = Some(20)
    /\ styles[last.style_id].cut_qty = Some(20)
    /\ Val(last.pre).stage # last.new_stage
    /\ styles[last.style_id].stage = last.new_stage


\* C17: merchant and created_at of a style never change after its creation: stage and
\* quantity updates, archive, restore and the edit submission all leave both as they were.
C17_MerchantAndCreationFixed ==
    [][\A i \in StyleIds :
          /\ styles'[i].merchant = styles[i].merchant
          /\ styles'[i].created_at = styles[i].created_at]_vars

\* an edit submission changed attributes of a style and left its merchant and creation time
C17_Witness ==
    /\ last.op = "update_style_info"
    /\ last.pre # None
    /\ styles[last.style_id].brand # Val(last.pre).brand
    /\ styles[last.style_id].total_qty # Val(last.pre).total_qty
    /\ styles[last.style_id].merchant = Val(last.pre).merchant
    /\ styles[last.style_id].created_at = Val(last.pre).created_at


----------------------------------------------------------------------------
(* Properties of the merchant lists and of the export (SpecExport) *)

\* the ids of the active styles of a merchant
ActiveOf(m) == {i \in StyleIds : styles[i].merchant = m /\ styles[i].active}

\* C18 as stated: get_styles_by_merchant(m, True) is exactly the active styles of m,
\* newest first (the empty sequence when there are none), and the CSV export has one row
\* per style of that list, in the order of the list.
C18_ListAndExport ==
    /\ \A m \in Merchants :
          LET r == get_styles_by_merchant(m, TRUE) IN
          /\ Range(r) = ActiveOf(m)
          /\ Len(r) = Cardinality(ActiveOf(m))
          /\ \A j, k \in DOMAIN r :
                j < k => styles[r[j]].created_at >= styles[r[k]].created_at
    /\ last.op = "export_csv"
          => LET r == get_styles_by_merchant(last.merchant, TRUE) IN
             /\ Len(last.rows) = Len(r)
             /\ \A k \in DOMAIN r : last.rows[k] = ExportRow(styles[r[k]])

\* C19: the balance of an export row is total_qty - stage_qty when both are positive
\* integers, never below 0, and empty otherwise: 100 and 30 give 70, 50 and 60 give 0,
\* an absent total gives empty, a zero or negative total or quantity gives empty.
C19_Balance ==
    LET ExpectedBalance(total, qty) ==
            IF total # None /\ qty # None /\ Val(total) > 0 /\ Val(qty) > 0
            THEN Some(IF Val(total) - Val(qty) > 0 THEN Val(total) - Val(qty) ELSE 0)
            ELSE None
    IN
    /\ balance(Some(100), Some(30)) = Some(70)
    /\ balance(Some(50), Some(60)) = Some(0)
    /\ last.op = "export_csv"
          => \A k \in DOMAIN last.rows :
                LET i == get_styles_by_merchant(last.merchant, TRUE)[k] IN
                \A f \in QtyFields :
                      last.rows[k].bal[f] = ExpectedBalance(styles[i].total_qty, styles[i][f])

\* an export showed a balance clamped at 0: the stage quantity exceeds the total
C19_Witness ==
    /\ last.op = "export_csv"
    /\ \E k \in DOMAIN last.rows : \E i \in ActiveOf(last.merchant) :
          /\ last.rows[k] = ExportRow(styles[i])
          /\ styles[i].total_qty = Some(50)
          /\ styles[i].stitch_qty = Some(60)
          /\ last.rows[k].bal.stitch_qty = Some(0)


\* C20 as stated: in every export row, for each of cut, stitch, finish and pack, the
\* quantity cell and the balance cell are both empty whenever total_qty or that stage's
\* quantity is absent or not positive.
C20_QtyAndBalanceEmpty ==
    LET NotPositive(v) == v = None \/ Val(v) <= 0 IN
    last.op = "export_csv"
        => \A k \in DOMAIN last.rows :
              LET i == get_styles_by_merchant(last.merchant, TRUE)[k] IN
              \A f \in QtyFields :
                    (NotPositive(styles[i].total_qty) \/ NotPositive(styles[i][f]))
                        => last.rows[k].qty[f] = None /\ last.rows[k].bal[f] = None

\* C20 as amended: the balance cell is empty whenever total_qty or that stage's quantity
\* is absent or not positive; the quantity cell is empty exactly when that stage's
\* quantity is absent or not positive, and shows the quantity otherwise, whatever
\* total_qty is.
C20_QtyCellIgnoresTotal ==
    LET NotPositive(v) == v = None \/ Val(v) <= 0 IN
    last.op = "export_csv"
        => \A k \in DOMAIN last.rows :
              LET i == get_styles_by_merchant(last.merchant, TRUE)[k] IN
              \A f \in QtyFields :
                    /\ (NotPositive(styles[i].total_qty) \/ NotPositive(styles[i][f]))
                          => last.rows[k].bal[f] = None
                    /\ last.rows[k].qty[f] =
                          IF NotPositive(styles[i][f]) THEN None ELSE styles[i][f]

\* an export row of a style without a total shows its stitch quantity and no balance
C20_Witness ==
    /\ last.op = "export_csv"
    /\ \E k \in DOMAIN last.rows : \E i \in ActiveOf(last.merchant) :
          /\ last.rows[k] = ExportRow(styles[i])
          /\ styles[i].total_qty = None
          /\ styles[i].stitch_qty = Some(30)
          /\ last.rows[k].qty.stitch_qty = Some(30)
          /\ last.rows[k].bal.stitch_qty = None


----------------------------------------------------------------------------
(* Properties of the numbers typed into the views (SpecEntry) *)

\* C21 as stated: in every reachable state total_qty, cut_qty, stitch_qty, finish_qty and
\* pack_qty of every style are each absent or a non-negative integer, whatever text was
\* typed into the add-style, edit-style and quantity views.
C21_QuantitiesNonNegative ==
    \A i \in StyleIds : \A f \in CountFields :
        styles[i][f] = None \/ Val(styles[i][f]) >= 0


----------------------------------------------------------------------------
(* Properties of the daily reminder (SpecRemind) *)

\* C22 as stated: a run of send_daily_reminder sends nothing to a user whose merchant has
\* no active style.
C22_NoReminderWithoutActiveStyle ==
    last.op = "send_daily_reminder"
        => \A k \in DOMAIN last.sent :
              get_styles_by_merchant(MerchantOf(last.sent[k]), TRUE) # <<>>

\* C23: a run of send_daily_reminder sends only to members of the resolved group, never
\* to a user the directory flags as deleted or as a bot, and at most once to each user.
C23_ReminderTargets ==
    last.op = "send_daily_reminder"
        => /\ \A k \in DOMAIN last.sent :
                 /\ last.sent[k] \in last.group
                 /\ last.members[last.sent[k]] # None
                 /\ ~Val(last.members[last.sent[k]]).deleted
                 /\ ~Val(last.members[last.sent[k]]).is_bot
           /\ \A j, k \in DOMAIN last.sent : j # k => last.sent[j] # last.sent[k]

\* a run over a group of a bot and a person sent one reminder, to the person
C23_Witness ==
    /\ last.op = "send_daily_reminder"
    /\ last.group = Users
    /\ \E u \in Users : last.members[u] # None /\ Val(last.members[u]).is_bot
    /\ Len(last.sent) = 1
    /\ ~Skipped(last.members[last.sent[1]])


----------------------------------------------------------------------------
(* Properties of the edit (SpecEdit) *)

\* C24: update_style_info overwrites exactly the fields a value is provided for and
\* leaves every other field of the style as it was (stage, active, merchant, created_at,
\* the four stage quantities, and the edit fields not provided); on an id no style has
\* it changes nothing.
C24_EditFrame ==
    [][last'.op = "update_style_info"
          => LET i == last'.style_id
                 info == last'.info
             IN  IF i \notin StyleIds THEN styles' = styles
                 ELSE /\ Len(styles') = Len(styles)
                      /\ \A j \in StyleIds : j # i => styles'[j] = styles[j]
                      /\ \A k \in DOMAIN styles[i] :
                            styles'[i][k] =
                                IF k \in InfoFields /\ info[k] # None
                                THEN IF k \in {"total_qty", "dispatch_date"}
                                     THEN info[k] ELSE Val(info[k])
                                ELSE styles[i][k]]_vars

\* an edit gave a style that had moved on a new brand and total, and left its garment,
\* stage and archive flag alone
C24_Witness ==
    /\ last.op = "update_style_info"
    /\ last.pre # None
    /\ last.info.brand # None
    /\ last.info.garment = None
    /\ Val(last.pre).stage # 0
    /\ styles[last.style_id].brand = Val(last.info.brand)
    /\ styles[last.style_id].brand # Val(last.pre).brand
    /\ styles[last.style_id].total_qty = last.info.total_qty
    /\ styles[last.style_id].garment = Val(last.pre).garment
    /\ styles[last.style_id].stage = Val(last.pre).stage
    /\ styles[last.style_id].active = Val(last.pre).active


----------------------------------------------------------------------------
(* Properties of concurrent writers (SpecConc, SpecRace) *)

\* C25 as stated: when two update_style_stage calls ran concurrently on one style and no
\* other call ran, then as the later of the two writes completes the style has the stage
\* that write was called with, and the record is one a serial execution of the two calls
\* gives.
C25_LastWriteWins ==
    [][\A t, u \in Threads :
          ( /\ t # u
            /\ threads[t].state = "run"
            /\ threads[t].handler = "update_style_stage"
            /\ threads[t].doc # None
            /\ threads'[t].state = "done"
            /\ Finished(u, "update_style_stage")
            /\ threads[u].style_id = threads[t].style_id
            /\ \A w \in Threads \ {t, u} : threads[w].state = "idle" )
          => LET i == threads[t].style_id
                 d0 == NewDoc("Megha", "X", "1", "Kurta", "Red", None, None, 1)
                 st == Val(threads[t].stage)
                 su == Val(threads[u].stage)
             IN  /\ styles'[i].stage = st
                 /\ styles'[i] \in {StageDoc(StageDoc(d0, su), st),
                                    StageDoc(StageDoc(d0, st), su)}]_vars


----------------------------------------------------------------------------
(* Further properties of the store, one caller at a time (Spec, SpecStages) *)

\* C26: a read right after a completed write sees it: get_style_by_id and
\* get_styles_by_merchant called after add_style, update_style_stage,
\* update_style_quantities, delete_style or restore_style give what was just written.
C26_ReadYourWrite ==
    LET i == last.style_id
        read == get_style_by_id(i)
        listed(active_only) ==
            i \in Range(get_styles_by_merchant(Val(last.pre).merchant, active_only))
    IN
    /\ last.op = "add_style"
          => LET new == get_style_by_id(last.ret) IN
             /\ new # None
             /\ Val(new).merchant = last.merchant
             /\ Val(new).total_qty = last.total_qty
             /\ Val(new).stage = 0 /\ Val(new).active
             /\ last.ret \in Range(get_styles_by_merchant(last.merchant, TRUE))
    /\ (last.op = "update_style_stage" /\ last.pre # None)
          => /\ read # None
             /\ Val(read).stage = last.stage
             /\ listed(TRUE) <=> (Val(last.pre).active /\ last.stage # DispatchStage)
    /\ (last.op = "update_style_quantities" /\ last.pre # None)
          => /\ read # None
             /\ \A f \in QtyFields : last.q[f] # None => Val(read)[f] = last.q[f]
    /\ (last.op = "delete_style" /\ last.ret)
          => /\ read # None
             /\ ~Val(read).active
             /\ ~listed(TRUE) /\ listed(FALSE)
    /\ (last.op = "restore_style" /\ last.ret)
          => /\ read # None
             /\ Val(read).active
             /\ listed(TRUE)

\* right after an archive the style reads as archived and is gone from the active list
C26_Witness ==
    /\ last.op = "delete_style"
    /\ last.ret
    /\ get_style_by_id(last.style_id) # None
    /\ ~Val(get_style_by_id(last.style_id)).active
    /\ last.style_id \notin
          Range(get_styles_by_merchant(styles[last.style_id].merchant, TRUE))
    /\ last.style_id \in
          Range(get_styles_by_merchant(styles[last.style_id].merchant, FALSE))


\* C27: stage transitions are unrestricted: whatever stage in 0..13 a style is at, and
\* whatever stage in 0..13 is requested (a lower one, or one away from Dispatch,
\* included), update_style_stage leaves the style at the requested stage.
C27_AnyStageFromAnyStage ==
    ( /\ last.op = "update_style_stage"
      /\ last.pre # None
      /\ Val(last.pre).stage \in Stages
      /\ last.stage \in Stages )
        => styles[last.style_id].stage = last.stage

\* a style at Dispatch was moved back to Fit
C27_Witness ==
    /\ last.op = "update_style_stage"
    /\ last.pre # None
    /\ Val(last.pre).stage = DispatchStage
    /\ last.stage = 1
    /\ styles[last.style_id].stage = 1


\* C28: update_style_stage with a stage other than 13 leaves the active flag as it was:
\* it neither archives an active style nor brings back an archived one, so a style moved
\* back from Dispatch stays archived until restore_style.
C28_ActiveKeptBelowDispatch ==
    ( /\ last.op = "update_style_stage"
      /\ last.pre # None
      /\ last.stage # DispatchStage )
        => styles[last.style_id].active = Val(last.pre).active

\* a style archived at Dispatch was moved back to GPT and is still archived
C28_Witness ==
    /\ last.op = "update_style_stage"
    /\ last.pre # None
    /\ Val(last.pre).stage = DispatchStage
    /\ ~Val(last.pre).active
    /\ last.stage = 5
    /\ styles[last.style_id].stage = 5
    /\ ~styles[last.style_id].active


\* C29 as stated: whatever the interleaving of the reads and writes of concurrent calls
\* on a style, its active flag goes from false to true only in a step of restore_style.
C29_OnlyRestoreReactivates ==
    [][\A i \in StyleIds :
          (~styles[i].active /\ styles'[i].active)
              => last'.op = "restore_style" /\ last'.style_id = i]_vars


----------------------------------------------------------------------------
(* Properties of the deferred bulk update (SpecDefer) *)

\* C30: a bulk update whose change set has at least one flow-stage change writes nothing
\* and puts the whole change set, the non-flow changes and the changes to stage 13
\* included, into the pending token; a bulk update whose change set has no flow-stage
\* change writes every change at once and pushes nothing; and the store changes only in
\* a bulk quantity submission or in a bulk update without a flow-stage change, so a pushed
\* view that is never submitted changes no style.
C30_BulkDeferred ==
    [][ /\ (last'.op = "save_bulk_update" /\ nops' # nops)
            => IF last'.flow_changes # <<>>
               THEN /\ styles' = styles
                    /\ \E tok \in bulkPending' : tok.changes = last'.desired_changes
               ELSE /\ bulkPending' = bulkPending
                    /\ \A k \in DOMAIN last'.desired_changes :
                          styles'[last'.desired_changes[k].style_id].stage =
                              last'.desired_changes[k].new_stage
        /\ styles' # styles
            => \/ last'.op = "handle_bulk_qty_submit"
               \/ last'.op = "save_bulk_update" /\ last'.flow_changes = <<>> ]_vars

\* styles 1, 2, 3 at stage 2 and the request {1:5, 2:13, 3:9}: the view is pushed, the
\* token holds all three changes and no style has moved
C30_Witness ==
    /\ last.op = "save_bulk_update"
    /\ last.ret = "push"
    /\ last.desired_changes = <<[style_id |-> 1, new_stage |-> 5],
                                [style_id |-> 2, new_stage |-> 13],
                                [style_id |-> 3, new_stage |-> 9]>>
    /\ \E tok \in bulkPending : tok.changes = last.desired_changes
    /\ \A i \in 1..3 : styles[i].stage = 2 /\ styles[i].active


----------------------------------------------------------------------------
(* Properties of the bulk update path, continued (SpecBulk, SpecDefer) *)

\* C31: a bulk update changes styles of the submitting merchant only: whoever submitted
\* the view, all the styles that one bulk submission or one bulk quantity submission
\* changes have the same merchant.
C31_BulkOwnStylesOnly ==
    [][(nops' # nops /\ last'.op \in {"save_bulk_update", "handle_bulk_qty_submit"})
          => \E m \in Merchants :
                \A i \in StyleIds : styles'[i] # styles[i] => styles[i].merchant = m]_vars


----------------------------------------------------------------------------
(* Properties of redemption (SpecRedeem, SpecApp) *)

\* C32: a pending change is redeemed only against a style that is still active: when the
\* style was archived or dispatched after the quantity view was pushed, the quantity
\* submission (single or bulk) leaves its record as it was.
C32_RedeemOnlyIfUnmoved ==
    [][\A i \in StyleIds :
          ( /\ nops' # nops
            /\ ~styles[i].active
            /\ \/ last'.op = "save_qty_update" /\ last'.ret = "updated" /\ last'.style_id = i
               \/ /\ last'.op = "handle_bulk_qty_submit"
                  /\ \E k \in DOMAIN last'.changes : last'.changes[k].style_id = i )
          => styles'[i] = styles[i]]_vars


\* C33: redeeming a pending change a second time, with the same style id, stage and
\* quantity inputs and nothing in between, leaves the store as the first redemption
\* left it.
C33_RedeemTwice ==
    [][( /\ nops' # nops
         /\ last.op = "save_qty_update" /\ last.ret = "updated"
         /\ last'.op = "save_qty_update" /\ last'.ret = "updated"
         /\ last'.style_id = last.style_id
         /\ last'.new_stage = last.new_stage
         /\ last'.form = last.form )
        => styles' = styles]_vars

\* the change of style 1 to stage 9 redeemed twice with 7 as cutting quantity: the second
\* redemption found the record as it left it
C33_Witness ==
    /\ nops = 2
    /\ last.op = "save_qty_update" /\ last.ret = "updated"
    /\ last.style_id = 1 /\ last.new_stage = 9
    /\ last.form.cut_qty = Some(<<"7">>)
    /\ last.pre = Some(styles[1])
    /\ styles[1].stage = 9 /\ styles[1].cut_qty = Some(7)
    /\ styles[2].stage = 2


----------------------------------------------------------------------------
(* Properties of the store, continued (Spec, SpecRace) *)

\* C34: for every merchant the active list and the archived list have no style in common
\* and together hold exactly the styles of the list taken with active_only = False.
C34_ActiveArchivedPartition ==
    \A m \in Merchants :
        LET act == get_styles_by_merchant(m, TRUE)
            arch == get_archived_styles_by_merchant(m)
            all == get_styles_by_merchant(m, FALSE)
        IN  /\ Range(act) \cap Range(arch) = {}
            /\ Range(act) \cup Range(arch) = Range(all)
            /\ Len(act) + Len(arch) = Len(all)

\* Megha has one active and one archived style
C34_Witness ==
    /\ get_styles_by_merchant("Megha", TRUE) # <<>>
    /\ get_archived_styles_by_merchant("Megha") # <<>>
    /\ Len(get_styles_by_merchant("Megha", FALSE)) = 2


\* C35: delete_style on an active style followed at once by restore_style on the same
\* style: both answer true and the record is, in every field, the record the style had
\* before the two calls; no other record changes.
C35_ArchiveRestoreRoundTrip ==
    [][( /\ nops' # nops
         /\ last.op = "delete_style" /\ last.pre # None /\ Val(last.pre).active
         /\ last'.op = "restore_style" /\ last'.style_id = last.style_id )
        => /\ last.ret /\ last'.ret
           /\ styles'[last.style_id] = Val(last.pre)
           /\ \A i \in StyleIds : i # last.style_id => styles'[i] = styles[i]]_vars

\* style 1, at stage 5 with its four quantities recorded, was archived and restored
C35_Witness ==
    /\ nops = 2
    /\ last.op = "restore_style" /\ last.style_id = 1 /\ last.ret
    /\ ~Val(last.pre).active
    /\ styles[1].active /\ styles[1].stage = 5 /\ styles[1].cut_qty = Some(20)
    /\ styles[1] = [Val(last.pre) EXCEPT !.active = TRUE]


\* C36: a call addressed to one style id leaves the records of all other ids as they
\* were, also when calls on other ids run at the same time: whenever the record of a
\* style changes, the step is taken by a call addressed to that style.
C36_OtherStylesUntouched ==
    [][\A j \in StyleIds :
          styles'[j] # styles[j]
              => \E t \in Threads : threads'[t] # threads[t] /\ threads[t].style_id = j]_vars


\* C37: handle_bulk_qty_submit commits a change to a flow stage only for a style that the
\* pushed quantity view offered inputs for, however many flow-stage changes the set holds.
C37_FlowChangeWasOffered ==
    [][(nops' # nops /\ last'.op = "handle_bulk_qty_submit")
          => \A tok \in bulkPending :
                tok.changes = last'.changes
                    => \A k \in DOMAIN tok.changes :
                          LET id == tok.changes[k].style_id
                              new_stage == tok.changes[k].new_stage
                          IN  ( /\ IsFlow(new_stage)
                                /\ id \in StyleIds
                                /\ styles'[id].stage = new_stage )
                              => id \in tok.offered]_vars

====
